---- MODULE Spec2Model ----
(***************************************************************************)
(* Model of the theme toggle component (src/unnamed/part_001, the <script> *)
(* block, lines 42-188): one document that loads, runs setupThemeToggle on  *)
(* DOMContentLoaded and then reacts to click/touchend on a toggle control,  *)
(* to the two nested setTimeout callbacks, to visibilitychange and to the   *)
(* change event of the prefers-color-scheme media query.                    *)
(*                                                                          *)
(* Time is kept in milliseconds and advances in steps of FirstDelay (50),   *)
(* the greatest common divisor of the two delays; a timer fires when its    *)
(* remaining time is 0, timers due at the same time fire in the order they  *)
(* were scheduled (the browser's timer queue).                              *)
(***************************************************************************)
EXTENDS Integers, Sequences, FiniteSets, TLC

VARIABLES
    pc,             \* "loading" before DOMContentLoaded, "ready" after setupThemeToggle ran
    theme,          \* localStorage item 'theme': NoItem or a string
    prefersDark,    \* matchMedia('(prefers-color-scheme: dark)').matches
    visibility,     \* document.visibilityState
    dark,           \* documentElement.classList contains 'dark'
    switching,      \* documentElement.classList contains 'theme-switching'
    overlayOpacity, \* overlay.style.opacity (0 or 1)
    overlayColor,   \* overlay.style.backgroundColor
    ripples,        \* ids of the ripple <span> elements attached to the toggle
    timers,         \* pending setTimeout callbacks, in scheduling order
    events,         \* themeChanged events dispatched in this document (detail.isDark)
    clicks,         \* number of click/touchend events handled so far
    loads,          \* number of documents loaded so far
    startLog,       \* history: state observed at each toggle start
    prevInit,       \* history: what the previous run of setupThemeToggle saw and did
    last,           \* history: the last step taken
    storage,        \* localStorage: "ok", "readonly" (setItem throws) or "blocked"
    media,          \* window.matchMedia exists
    wired,          \* the click/touchend listeners are attached to the controls
    errored,        \* an uncaught exception was reported in this document
    writes,         \* completed localStorage.setItem calls of this document
    origin,         \* the custom properties --x, --y of <html>, in px
    hosts,          \* <<ripple id, control>>: the control each ripple is appended to
    env,            \* process.env seen by astro.config.mjs
    site            \* the site option the configuration was built with

vars == <<pc, theme, prefersDark, visibility, dark, switching, overlayOpacity,
          overlayColor, ripples, timers, events, clicks, loads, startLog,
          prevInit, last, storage, media, wired, errored, writes, origin, hosts,
          env, site>>

(* ---------------------------- bounds ----------------------------------- *)

\* clicks/touches handled over the whole run
MaxToggles == 2
\* documents loaded over the whole run (the first load and the reloads)
MaxLoads == 2

(* ------------------------ program constants ---------------------------- *)

\* setTimeout(..., 50): delay before the theme is applied
FirstDelay == 50
\* setTimeout(..., 300): delay before the overlay is hidden
SecondDelay == 300

(* --------------------------- JavaScript -------------------------------- *)

\* localStorage.getItem returns null when the key is absent
NoItem == "<null>"

\* ToBoolean of a getItem result: null and the empty string are falsy
Truthy(v) == v # NoItem /\ v # ""

\* a || b
OrElse(a, b) == IF Truthy(a) THEN a ELSE b

\* the values the spec allows for the stored preference at load time
StoredValues == {NoItem, "light", "dark"}

\* overlay.style.backgroundColor chosen for the new theme
OverlayTint(newTheme) ==
    IF newTheme = "dark" THEN "rgba(24, 24, 27, 0.3)" ELSE "rgba(255, 255, 255, 0.3)"

\* variant: the ternary the wrong way round
NewThemeInverted(isDark) == IF isDark THEN "dark" ELSE "light"

\* variant: the new theme does not depend on the current one
NewThemeAlwaysDark(isDark) == "dark"

\* variant: the negated flag itself is stored (setItem('theme', !isDark))
NewThemeBoolean(isDark) == IF isDark THEN "false" ELSE "true"

\* const newTheme = isDark ? 'light' : 'dark'
NewTheme(isDark) == IF isDark THEN "light" ELSE "dark"

\* variant: a dark system preference wins over the stored preference
CurrentThemeSystemFirst(item, prefersDarkMode) ==
    IF prefersDarkMode THEN "dark" ELSE OrElse(item, "light")

\* const currentTheme = localStorage.getItem('theme') || (prefersDarkMode ? 'dark' : 'light')
CurrentTheme(item, prefersDarkMode) ==
    OrElse(item, IF prefersDarkMode THEN "dark" ELSE "light")

RECURSIVE MinDue(_, _)
\* index of the first timer of s, from i on, whose delay has elapsed (0: none)
MinDue(s, i) ==
    IF i > Len(s) THEN 0
    ELSE IF s[i].remaining = 0 THEN i
    ELSE MinDue(s, i + 1)

\* s without its i-th element
RemoveAt(s, i) == [j \in 1..(Len(s) - 1) |-> IF j < i THEN s[j] ELSE s[j + 1]]

\* the timer the event loop runs next, 0 when none is due
DueTimer == MinDue(timers, 1)

NoInit == [seen |-> FALSE, item |-> NoItem, os |-> FALSE, flag |-> FALSE, repeat |-> FALSE]

\* the effective mode of the spec's data model: the explicit stored preference
\* if present, else the live OS-level signal (TRUE: dark)
EffectiveDark ==
    IF theme = "dark" THEN TRUE
    ELSE IF theme = "light" THEN FALSE
    ELSE prefersDark

Step(op, d) == [op |-> op, flagChanged |-> d]

\* how localStorage behaves: working, rejecting writes (quota), or rejecting
\* every access (storage disabled for the origin)
StorageModes == {"ok", "readonly", "blocked"}

\* --x and --y before any toggle: not set
NoOrigin == <<>>

\* pointer positions relative to the control (clientX - rect.left,
\* clientY - rect.top): the centre of the 32x32 button, a point near its
\* top-left corner, and a point left of and above it (a keyboard-activated
\* click has clientX = clientY = 0)
Points == {<<16, 16>>, <<3, 1>>, <<-2, -5>>}

\* a click in the centre of the 32x32 button (h-5 w-5 content, p-1.5), used
\* where the pointer does not matter
Centre == <<16, 16>>

\* the elements carrying data-theme-toggle (the component is used twice)
Controls == {"header", "menu"}

\* the control used where the control does not matter
MainControl == "header"

\* toggle.getBoundingClientRect(): <<left, top>> of each control
RectOf == [header |-> <<10, 2>>, menu |-> <<4, 30>>]

\* the events the listeners receive: a click carries clientX/clientY, a
\* touchend carries changedTouches[0].clientX/clientY
PointerEvents ==
    {[type |-> "click", client |-> <<26, 18>>, touch |-> <<>>],
     [type |-> "click", client |-> <<0, 0>>, touch |-> <<>>],
     [type |-> "touchend", client |-> <<>>, touch |-> <<13, 3>>]}

\* lines 78-87: x, y of the event relative to the control
Position(e, c) ==
    LET rect == RectOf[c]
        pt == IF e.type = "touchend" /\ e.touch # <<>> THEN e.touch ELSE e.client
    IN <<pt[1] - rect[1], pt[2] - rect[2]>>

\* process.env.X of a variable that is not set
NoEnv == "<undefined>"

\* ToBoolean of process.env.X: undefined and the empty string are falsy
IsSet(v) == v # NoEnv /\ v # ""

\* values of VERCEL_URL and VERCEL_BRANCH_URL
EnvValues == {NoEnv, "", "blog.vercel.app", "blog-git-dev.vercel.app", "blog-x1.vercel.app"}

\* an environment without the Vercel variables
LocalEnv == [VERCEL_URL |-> NoEnv, VERCEL_BRANCH_URL |-> NoEnv]

\* site before the configuration has been evaluated
NoSite == "<unbuilt>"

\* variant: the preview deployment is tested first
getSiteURLBranchFirst(e) ==
    IF IsSet(e.VERCEL_BRANCH_URL) THEN "https://" \o e.VERCEL_BRANCH_URL
    ELSE IF IsSet(e.VERCEL_URL) THEN "https://" \o e.VERCEL_URL
    ELSE "http://localhost:4321"

\* getSiteURL of astro.config.mjs
getSiteURL(e) ==
    IF IsSet(e.VERCEL_URL) THEN "https://" \o e.VERCEL_URL
    ELSE IF IsSet(e.VERCEL_BRANCH_URL) THEN "https://" \o e.VERCEL_BRANCH_URL
    ELSE "http://localhost:4321"

(* ----------------------------- Init ------------------------------------ *)

\* a document that has been parsed but whose DOMContentLoaded has not fired:
\* the class list of <html> is whatever the page markup carries
Document ==
    /\ pc = "loading"
    /\ theme \in StoredValues
    /\ prefersDark \in BOOLEAN
    /\ visibility = "visible"
    /\ dark \in BOOLEAN
    /\ switching = FALSE
    /\ overlayOpacity = 0
    /\ overlayColor = ""
    /\ ripples = {}
    /\ timers = <<>>
    /\ events = <<>>
    /\ clicks = 0
    /\ loads = 1
    /\ startLog = <<>>
    /\ prevInit = NoInit
    /\ last = Step("Load", FALSE)
    /\ wired = FALSE
    /\ writes = 0
    /\ origin = NoOrigin
    /\ hosts = {}
    /\ env = LocalEnv
    /\ site = getSiteURL(LocalEnv)

\* localStorage and matchMedia both work
Init ==
    /\ Document
    /\ storage = "ok"
    /\ media = TRUE
    /\ errored = FALSE

\* strings other than 'light' and 'dark' that getItem can return when the item
\* was written by something else than this script
JunkValues == {"", "system"}

\* the document of a browser whose stored item is one of JunkValues
InitJunk ==
    /\ pc = "loading"
    /\ theme \in JunkValues
    /\ prefersDark \in BOOLEAN
    /\ visibility = "visible"
    /\ dark \in BOOLEAN
    /\ switching = FALSE
    /\ overlayOpacity = 0
    /\ overlayColor = ""
    /\ ripples = {}
    /\ timers = <<>>
    /\ events = <<>>
    /\ clicks = 0
    /\ loads = 1
    /\ startLog = <<>>
    /\ prevInit = NoInit
    /\ last = Step("Load", FALSE)
    /\ wired = FALSE
    /\ writes = 0
    /\ origin = NoOrigin
    /\ hosts = {}
    /\ env = LocalEnv
    /\ site = getSiteURL(LocalEnv)
    /\ storage = "ok"
    /\ media = TRUE
    /\ errored = FALSE

\* localStorage or matchMedia may be unavailable; without matchMedia the
\* registration of the change listener (line 179) has already thrown
InitFail ==
    /\ Document
    /\ storage \in StorageModes
    /\ media \in BOOLEAN
    /\ errored = ~media

(* ---------------------------- actions ---------------------------------- *)

\* variant: setupThemeToggle writes the theme it applied back to localStorage
InitializePersists ==
    /\ pc = "loading"
    /\ pc' = "ready"
    /\ IF ~media \/ storage = "blocked"
       THEN /\ errored' = TRUE
            /\ last' = Step("InitializeThrows", FALSE)
            /\ UNCHANGED <<dark, theme, writes, prevInit, wired, overlayOpacity>>
       ELSE /\ LET currentTheme == CurrentTheme(theme, prefersDark)
                   flag == IF currentTheme = "dark" THEN TRUE ELSE FALSE
               IN /\ dark' = flag
                  /\ theme' = currentTheme
                  /\ prevInit' = [seen |-> TRUE, item |-> theme, os |-> prefersDark,
                                  flag |-> flag,
                                  repeat |-> prevInit.seen /\ prevInit.item = theme
                                             /\ prevInit.os = prefersDark]
                  /\ last' = Step("Initialize", flag # dark)
            /\ writes' = writes + 1
            /\ overlayOpacity' = 0
            /\ wired' = TRUE
            /\ errored' = errored
    /\ UNCHANGED <<prefersDark, visibility, switching, overlayColor, ripples, timers,
                   events, clicks, loads, startLog, origin, storage, media, hosts, env,
                   site>>

\* variant: setupThemeToggle without the else branch that removes 'dark'
InitializeAddOnly ==
    /\ pc = "loading"
    /\ pc' = "ready"
    /\ IF ~media \/ storage = "blocked"
       THEN /\ errored' = TRUE
            /\ last' = Step("InitializeThrows", FALSE)
            /\ UNCHANGED <<dark, prevInit, wired, overlayOpacity>>
       ELSE /\ LET currentTheme == CurrentTheme(theme, prefersDark)
                   flag == IF currentTheme = "dark" THEN TRUE ELSE dark
               IN /\ dark' = flag
                  /\ prevInit' = [seen |-> TRUE, item |-> theme, os |-> prefersDark,
                                  flag |-> flag,
                                  repeat |-> prevInit.seen /\ prevInit.item = theme
                                             /\ prevInit.os = prefersDark]
                  /\ last' = Step("Initialize", flag # dark)
            /\ overlayOpacity' = 0
            /\ wired' = TRUE
            /\ errored' = errored
    /\ UNCHANGED <<theme, prefersDark, visibility, switching, overlayColor, ripples,
                   timers, events, clicks, loads, startLog, writes, origin, storage,
                   media, hosts, env, site>>

\* variant: a stored value other than 'light' and 'dark' is treated as absent
InitializeValidates ==
    /\ pc = "loading"
    /\ pc' = "ready"
    /\ IF ~media \/ storage = "blocked"
       THEN /\ errored' = TRUE
            /\ last' = Step("InitializeThrows", FALSE)
            /\ UNCHANGED <<dark, prevInit, wired, overlayOpacity>>
       ELSE /\ LET currentTheme == IF theme \in {"light", "dark"} THEN theme
                                   ELSE IF prefersDark THEN "dark" ELSE "light"
                   flag == IF currentTheme = "dark" THEN TRUE ELSE FALSE
               IN /\ dark' = flag
                  /\ prevInit' = [seen |-> TRUE, item |-> theme, os |-> prefersDark,
                                  flag |-> flag,
                                  repeat |-> prevInit.seen /\ prevInit.item = theme
                                             /\ prevInit.os = prefersDark]
                  /\ last' = Step("Initialize", flag # dark)
            /\ overlayOpacity' = 0
            /\ wired' = TRUE
            /\ errored' = errored
    /\ UNCHANGED <<theme, prefersDark, visibility, switching, overlayColor, ripples,
                   timers, events, clicks, loads, startLog, writes, origin, storage,
                   media, hosts, env, site>>

\* setupThemeToggle, run by DOMContentLoaded; matchMedia (line 48) or getItem
\* (line 51) throwing ends the function before the theme is applied, the overlay
\* created and the controls wired
Initialize ==
    /\ pc = "loading"
    /\ pc' = "ready"
    /\ IF ~media \/ storage = "blocked"
       THEN /\ errored' = TRUE
            /\ last' = Step("InitializeThrows", FALSE)
            /\ UNCHANGED <<dark, prevInit, wired, overlayOpacity>>
       ELSE /\ LET currentTheme == CurrentTheme(theme, prefersDark)
                   flag == IF currentTheme = "dark" THEN TRUE ELSE FALSE
               IN /\ dark' = flag
                  /\ prevInit' = [seen |-> TRUE, item |-> theme, os |-> prefersDark,
                                  flag |-> flag,
                                  repeat |-> prevInit.seen /\ prevInit.item = theme
                                             /\ prevInit.os = prefersDark]
                  /\ last' = Step("Initialize", flag # dark)
            /\ overlayOpacity' = 0
            /\ wired' = TRUE
            /\ errored' = errored
    /\ UNCHANGED <<theme, prefersDark, visibility, switching, overlayColor, ripples,
                   timers, events, clicks, loads, startLog, writes, origin, storage,
                   media, hosts, env, site>>

\* variant: the handler derives the new theme from the stored preference and
\* the OS signal instead of the class on <html>
ToggleLowFromEffective(p) ==
    /\ pc = "ready"
    /\ wired
    /\ clicks < MaxToggles
    /\ LET isDark == EffectiveDark
           newTheme == NewTheme(isDark)
           id == clicks + 1
       IN /\ overlayColor' = OverlayTint(newTheme)
          /\ overlayOpacity' = 1
          /\ switching' = TRUE
          /\ ripples' = ripples \cup {id}
          /\ timers' = Append(timers, [id |-> id, kind |-> "first", isDark |-> isDark,
                                       remaining |-> FirstDelay])
          /\ clicks' = id
          /\ startLog' = Append(startLog, [dark |-> dark, item |-> theme,
                                           effective |-> EffectiveDark,
                                           newTheme |-> newTheme,
                                           fired |-> Len(events)])
    /\ last' = Step("ToggleStart", FALSE)
    /\ UNCHANGED <<pc, theme, prefersDark, visibility, dark, events, loads, prevInit,
                   wired, errored, writes, storage, media, env, site>>

\* variant: the handler returns early when the pointer is left of or above
\* the control
ToggleLowInsideOnly(p) ==
    /\ pc = "ready"
    /\ wired
    /\ clicks < MaxToggles
    /\ p[1] >= 0
    /\ p[2] >= 0
    /\ LET isDark == dark
           newTheme == NewTheme(isDark)
           id == clicks + 1
       IN /\ overlayColor' = OverlayTint(newTheme)
          /\ overlayOpacity' = 1
          /\ switching' = TRUE
          /\ ripples' = ripples \cup {id}
          /\ timers' = Append(timers, [id |-> id, kind |-> "first", isDark |-> isDark,
                                       remaining |-> FirstDelay])
          /\ clicks' = id
          /\ startLog' = Append(startLog, [dark |-> dark, item |-> theme,
                                           effective |-> EffectiveDark,
                                           newTheme |-> newTheme,
                                           fired |-> Len(events)])
    /\ last' = Step("ToggleStart", FALSE)
    /\ UNCHANGED <<pc, theme, prefersDark, visibility, dark, events, loads, prevInit,
                   wired, errored, writes, storage, media, env, site>>

\* the click/touchend listener of a toggle control, lines 93-146, up to the
\* first setTimeout; p = <<x, y>> is the position computed in lines 78-87
ToggleLow(p) ==
    /\ pc = "ready"
    /\ wired
    /\ clicks < MaxToggles
    /\ LET isDark == dark
           newTheme == NewTheme(isDark)
           id == clicks + 1
       IN /\ overlayColor' = OverlayTint(newTheme)
          /\ overlayOpacity' = 1
          /\ switching' = TRUE
          /\ ripples' = ripples \cup {id}
          /\ timers' = Append(timers, [id |-> id, kind |-> "first", isDark |-> isDark,
                                       remaining |-> FirstDelay])
          /\ clicks' = id
          /\ startLog' = Append(startLog, [dark |-> dark, item |-> theme,
                                           effective |-> EffectiveDark,
                                           newTheme |-> newTheme,
                                           fired |-> Len(events)])
    /\ last' = Step("ToggleStart", FALSE)
    /\ UNCHANGED <<pc, theme, prefersDark, visibility, dark, events, loads, prevInit,
                   wired, errored, writes, storage, media, env, site>>

\* variant: only the first control is wired (querySelector instead of
\* querySelectorAll)
ToggleStartFromFirstOnly(c, p) ==
    /\ c = MainControl
    /\ ToggleLow(p)
    /\ origin' = p
    /\ hosts' = hosts \cup {<<clicks + 1, c>>}

\* the whole listener of control c for a pointer at p: lines 90-91 store the
\* position in --x and --y, line 112 appends the ripple to the control
ToggleStartFrom(c, p) ==
    /\ ToggleLow(p)
    /\ origin' = p
    /\ hosts' = hosts \cup {<<clicks + 1, c>>}

\* the listener of the main control for a pointer at p
ToggleStartAt(p) == ToggleStartFrom(MainControl, p)

\* a click in the centre of the control
ToggleStart == ToggleStartAt(Centre)

\* a click or touch anywhere
ToggleStartAnywhere == \E p \in Points : ToggleStartAt(p)

\* lines 70-72: the listener is added to every control, for click and touchend
ToggleStartOn ==
    \E c \in Controls, e \in PointerEvents : ToggleStartFrom(c, Position(e, c))

\* time passes while no timer is due
Tick ==
    /\ timers # <<>>
    /\ DueTimer = 0
    /\ timers' = [i \in 1..Len(timers) |->
                    [timers[i] EXCEPT !.remaining = timers[i].remaining - FirstDelay]]
    /\ last' = Step("Tick", FALSE)
    /\ UNCHANGED <<pc, theme, prefersDark, visibility, dark, switching, overlayOpacity,
                   overlayColor, ripples, events, clicks, loads, startLog, prevInit,
                   wired, errored, writes, origin, storage, media, hosts, env, site>>

\* variant: the callback flips the class it finds (classList.toggle) instead of
\* using the isDark captured by the handler
FirstCallbackTogglesFlag ==
    /\ DueTimer # 0
    /\ timers[DueTimer].kind = "first"
    /\ LET t == timers[DueTimer]
           newTheme == NewTheme(t.isDark)
           flag == ~dark
       IN /\ dark' = flag
          /\ IF storage = "ok"
             THEN /\ theme' = newTheme
                  /\ writes' = writes + 1
                  /\ events' = Append(events, newTheme = "dark")
                  /\ timers' = Append(RemoveAt(timers, DueTimer),
                                      [id |-> t.id, kind |-> "second",
                                       isDark |-> t.isDark, remaining |-> SecondDelay])
                  /\ errored' = errored
                  /\ last' = Step("FirstCallback", flag # dark)
             ELSE /\ timers' = RemoveAt(timers, DueTimer)
                  /\ errored' = TRUE
                  /\ last' = Step("FirstCallbackThrows", flag # dark)
                  /\ UNCHANGED <<theme, writes, events>>
    /\ UNCHANGED <<pc, prefersDark, visibility, switching, overlayOpacity,
                   overlayColor, ripples, clicks, loads, startLog, prevInit, wired,
                   origin, storage, media, hosts, env, site>>

\* variant: the callback hides the overlay itself instead of leaving that to
\* the second setTimeout
FirstCallbackHidesOverlay ==
    /\ DueTimer # 0
    /\ timers[DueTimer].kind = "first"
    /\ LET t == timers[DueTimer]
           newTheme == NewTheme(t.isDark)
           flag == IF t.isDark THEN FALSE ELSE TRUE
       IN /\ dark' = flag
          /\ IF storage = "ok"
             THEN /\ theme' = newTheme
                  /\ writes' = writes + 1
                  /\ events' = Append(events, newTheme = "dark")
                  /\ timers' = Append(RemoveAt(timers, DueTimer),
                                      [id |-> t.id, kind |-> "second",
                                       isDark |-> t.isDark, remaining |-> SecondDelay])
                  /\ errored' = errored
                  /\ last' = Step("FirstCallback", flag # dark)
             ELSE /\ timers' = RemoveAt(timers, DueTimer)
                  /\ errored' = TRUE
                  /\ last' = Step("FirstCallbackThrows", flag # dark)
                  /\ UNCHANGED <<theme, writes, events>>
    /\ overlayOpacity' = 0
    /\ UNCHANGED <<pc, prefersDark, visibility, switching, overlayColor, ripples,
                   clicks, loads, startLog, prevInit, wired, origin, storage, media,
                   hosts, env, site>>

\* variant: the event carries the mode the toggle started from
FirstCallbackStaleEvent ==
    /\ DueTimer # 0
    /\ timers[DueTimer].kind = "first"
    /\ LET t == timers[DueTimer]
           newTheme == NewTheme(t.isDark)
           flag == IF t.isDark THEN FALSE ELSE TRUE
       IN /\ dark' = flag
          /\ IF storage = "ok"
             THEN /\ theme' = newTheme
                  /\ writes' = writes + 1
                  /\ events' = Append(events, t.isDark)
                  /\ timers' = Append(RemoveAt(timers, DueTimer),
                                      [id |-> t.id, kind |-> "second",
                                       isDark |-> t.isDark, remaining |-> SecondDelay])
                  /\ errored' = errored
                  /\ last' = Step("FirstCallback", flag # dark)
             ELSE /\ timers' = RemoveAt(timers, DueTimer)
                  /\ errored' = TRUE
                  /\ last' = Step("FirstCallbackThrows", flag # dark)
                  /\ UNCHANGED <<theme, writes, events>>
    /\ UNCHANGED <<pc, prefersDark, visibility, switching, overlayOpacity,
                   overlayColor, ripples, clicks, loads, startLog, prevInit, wired,
                   origin, storage, media, hosts, env, site>>

\* variant: the event is dispatched twice
FirstCallbackEmitsTwice ==
    /\ DueTimer # 0
    /\ timers[DueTimer].kind = "first"
    /\ LET t == timers[DueTimer]
           newTheme == NewTheme(t.isDark)
           flag == IF t.isDark THEN FALSE ELSE TRUE
       IN /\ dark' = flag
          /\ IF storage = "ok"
             THEN /\ theme' = newTheme
                  /\ writes' = writes + 1
                  /\ events' = Append(Append(events, newTheme = "dark"), newTheme = "dark")
                  /\ timers' = Append(RemoveAt(timers, DueTimer),
                                      [id |-> t.id, kind |-> "second",
                                       isDark |-> t.isDark, remaining |-> SecondDelay])
                  /\ errored' = errored
                  /\ last' = Step("FirstCallback", flag # dark)
             ELSE /\ timers' = RemoveAt(timers, DueTimer)
                  /\ errored' = TRUE
                  /\ last' = Step("FirstCallbackThrows", flag # dark)
                  /\ UNCHANGED <<theme, writes, events>>
    /\ UNCHANGED <<pc, prefersDark, visibility, switching, overlayOpacity,
                   overlayColor, ripples, clicks, loads, startLog, prevInit, wired,
                   origin, storage, media, hosts, env, site>>

\* variant: the callback reads the class when it fires instead of using the
\* value captured by the listener
FirstCallbackLateRead ==
    /\ DueTimer # 0
    /\ timers[DueTimer].kind = "first"
    /\ LET t == timers[DueTimer]
           newTheme == NewTheme(dark)
           flag == ~dark
       IN /\ dark' = flag
          /\ IF storage = "ok"
             THEN /\ theme' = newTheme
                  /\ writes' = writes + 1
                  /\ events' = Append(events, newTheme = "dark")
                  /\ timers' = Append(RemoveAt(timers, DueTimer),
                                      [id |-> t.id, kind |-> "second",
                                       isDark |-> t.isDark, remaining |-> SecondDelay])
                  /\ errored' = errored
                  /\ last' = Step("FirstCallback", flag # dark)
             ELSE /\ timers' = RemoveAt(timers, DueTimer)
                  /\ errored' = TRUE
                  /\ last' = Step("FirstCallbackThrows", flag # dark)
                  /\ UNCHANGED <<theme, writes, events>>
    /\ UNCHANGED <<pc, prefersDark, visibility, switching, overlayOpacity,
                   overlayColor, ripples, clicks, loads, startLog, prevInit, wired,
                   origin, storage, media, hosts, env, site>>

\* variant: the callback stores the value before it touches the class, so a
\* failing write leaves the class alone
FirstCallbackStoresFirst ==
    /\ DueTimer # 0
    /\ timers[DueTimer].kind = "first"
    /\ LET t == timers[DueTimer]
           newTheme == NewTheme(t.isDark)
           flag == IF storage = "ok" THEN ~t.isDark ELSE dark
       IN /\ dark' = flag
          /\ IF storage = "ok"
             THEN /\ theme' = newTheme
                  /\ writes' = writes + 1
                  /\ events' = Append(events, newTheme = "dark")
                  /\ timers' = Append(RemoveAt(timers, DueTimer),
                                      [id |-> t.id, kind |-> "second",
                                       isDark |-> t.isDark, remaining |-> SecondDelay])
                  /\ errored' = errored
                  /\ last' = Step("FirstCallback", flag # dark)
             ELSE /\ timers' = RemoveAt(timers, DueTimer)
                  /\ errored' = TRUE
                  /\ last' = Step("FirstCallbackThrows", flag # dark)
                  /\ UNCHANGED <<theme, writes, events>>
    /\ UNCHANGED <<pc, prefersDark, visibility, switching, overlayOpacity,
                   overlayColor, ripples, clicks, loads, startLog, prevInit, wired,
                   origin, storage, media, hosts, env, site>>

\* the callback of the first setTimeout; setItem (line 126) throwing ends it
\* after the class was changed, before the event and the second setTimeout
FirstCallback ==
    /\ DueTimer # 0
    /\ timers[DueTimer].kind = "first"
    /\ LET t == timers[DueTimer]
           newTheme == NewTheme(t.isDark)
           flag == IF t.isDark THEN FALSE ELSE TRUE
       IN /\ dark' = flag
          /\ IF storage = "ok"
             THEN /\ theme' = newTheme
                  /\ writes' = writes + 1
                  /\ events' = Append(events, newTheme = "dark")
                  /\ timers' = Append(RemoveAt(timers, DueTimer),
                                      [id |-> t.id, kind |-> "second",
                                       isDark |-> t.isDark, remaining |-> SecondDelay])
                  /\ errored' = errored
                  /\ last' = Step("FirstCallback", flag # dark)
             ELSE /\ timers' = RemoveAt(timers, DueTimer)
                  /\ errored' = TRUE
                  /\ last' = Step("FirstCallbackThrows", flag # dark)
                  /\ UNCHANGED <<theme, writes, events>>
    /\ UNCHANGED <<pc, prefersDark, visibility, switching, overlayOpacity,
                   overlayColor, ripples, clicks, loads, startLog, prevInit, wired,
                   origin, storage, media, hosts, env, site>>

\* variant: the callback hides the overlay but leaves 'theme-switching' set
SecondCallbackKeepsClass ==
    /\ DueTimer # 0
    /\ timers[DueTimer].kind = "second"
    /\ LET t == timers[DueTimer]
       IN /\ overlayOpacity' = 0
          /\ ripples' = ripples \ {t.id}
          /\ hosts' = {h \in hosts : h[1] # t.id}
          /\ timers' = RemoveAt(timers, DueTimer)
    /\ last' = Step("SecondCallback", FALSE)
    /\ UNCHANGED <<pc, theme, prefersDark, visibility, dark, switching, overlayColor,
                   events, clicks, loads, startLog, prevInit, wired, errored, writes,
                   origin, storage, media, env, site>>

\* variant: the second callback removes the class and the ripple but leaves
\* the overlay opaque
SecondCallbackKeepsOverlay ==
    /\ DueTimer # 0
    /\ timers[DueTimer].kind = "second"
    /\ LET t == timers[DueTimer]
       IN /\ overlayOpacity' = overlayOpacity
          /\ switching' = FALSE
          /\ ripples' = ripples \ {t.id}
          /\ hosts' = {h \in hosts : h[1] # t.id}
          /\ timers' = RemoveAt(timers, DueTimer)
    /\ last' = Step("SecondCallback", FALSE)
    /\ UNCHANGED <<pc, theme, prefersDark, visibility, dark, overlayColor, events,
                   clicks, loads, startLog, prevInit, wired, errored, writes, origin,
                   storage, media, env, site>>

\* variant: the second callback removes every ripple on the page
SecondCallbackRemovesAllRipples ==
    /\ DueTimer # 0
    /\ timers[DueTimer].kind = "second"
    /\ LET t == timers[DueTimer]
       IN /\ overlayOpacity' = 0
          /\ switching' = FALSE
          /\ ripples' = {}
          /\ hosts' = {}
          /\ timers' = RemoveAt(timers, DueTimer)
    /\ last' = Step("SecondCallback", FALSE)
    /\ UNCHANGED <<pc, theme, prefersDark, visibility, dark, overlayColor, events,
                   clicks, loads, startLog, prevInit, wired, errored, writes, origin,
                   storage, media, env, site>>

\* the callback of the second setTimeout
SecondCallback ==
    /\ DueTimer # 0
    /\ timers[DueTimer].kind = "second"
    /\ LET t == timers[DueTimer]
       IN /\ overlayOpacity' = 0
          /\ switching' = FALSE
          /\ ripples' = ripples \ {t.id}
          /\ hosts' = {h \in hosts : h[1] # t.id}
          /\ timers' = RemoveAt(timers, DueTimer)
    /\ last' = Step("SecondCallback", FALSE)
    /\ UNCHANGED <<pc, theme, prefersDark, visibility, dark, overlayColor, events,
                   clicks, loads, startLog, prevInit, wired, errored, writes, origin,
                   storage, media, env, site>>

\* variant: the listener without the 'light' branch
VisibilityChangeDarkOnly ==
    \E newState \in {"visible", "hidden"} :
        /\ newState # visibility
        /\ visibility' = newState
        /\ LET throws == newState = "visible" /\ storage = "blocked"
               currentTheme == theme
               flag == IF newState = "visible" /\ ~throws
                       THEN IF currentTheme = "dark" THEN TRUE ELSE dark
                       ELSE dark
           IN /\ dark' = flag
              /\ errored' = (errored \/ throws)
              /\ last' = Step(IF throws THEN "VisibilityThrows"
                              ELSE IF newState = "visible" THEN "VisibilityRestored"
                              ELSE "VisibilityHidden", flag # dark)
    /\ UNCHANGED <<pc, theme, prefersDark, switching, overlayOpacity, overlayColor,
                   ripples, timers, events, clicks, loads, startLog, prevInit, wired,
                   writes, origin, storage, media, hosts, env, site>>

\* variant: with nothing stored the handler falls back to the OS preference
VisibilityChangeFollowsSystem ==
    \E newState \in {"visible", "hidden"} :
        /\ newState # visibility
        /\ visibility' = newState
        /\ LET throws == newState = "visible" /\ storage = "blocked"
               currentTheme == theme
               flag == IF newState = "visible" /\ ~throws
                       THEN IF currentTheme = "dark" THEN TRUE
                            ELSE IF currentTheme = "light" THEN FALSE
                            ELSE prefersDark
                       ELSE dark
           IN /\ dark' = flag
              /\ errored' = (errored \/ throws)
              /\ last' = Step(IF throws THEN "VisibilityThrows"
                              ELSE IF newState = "visible" THEN "VisibilityRestored"
                              ELSE "VisibilityHidden", flag # dark)
    /\ UNCHANGED <<pc, theme, prefersDark, switching, overlayOpacity, overlayColor,
                   ripples, timers, events, clicks, loads, startLog, prevInit, wired,
                   writes, origin, storage, media, hosts, env, site>>

\* the visibilitychange listener; newState is document.visibilityState;
\* getItem (line 169) throwing ends it
VisibilityChange ==
    \E newState \in {"visible", "hidden"} :
        /\ newState # visibility
        /\ visibility' = newState
        /\ LET throws == newState = "visible" /\ storage = "blocked"
               currentTheme == theme
               flag == IF newState = "visible" /\ ~throws
                       THEN IF currentTheme = "dark" THEN TRUE
                            ELSE IF currentTheme = "light" THEN FALSE
                            ELSE dark
                       ELSE dark
           IN /\ dark' = flag
              /\ errored' = (errored \/ throws)
              /\ last' = Step(IF throws THEN "VisibilityThrows"
                              ELSE IF newState = "visible" THEN "VisibilityRestored"
                              ELSE "VisibilityHidden", flag # dark)
    /\ UNCHANGED <<pc, theme, prefersDark, switching, overlayOpacity, overlayColor,
                   ripples, timers, events, clicks, loads, startLog, prevInit, wired,
                   writes, origin, storage, media, hosts, env, site>>

\* variant: the listener without the localStorage guard
SystemPreferenceChangeUnguarded ==
    /\ media
    /\ \E matches \in BOOLEAN :
        /\ matches # prefersDark
        /\ prefersDark' = matches
        /\ LET throws == storage = "blocked"
               flag == IF throws THEN dark
                       ELSE IF matches THEN TRUE ELSE FALSE
           IN /\ dark' = flag
              /\ theme' = theme
              /\ errored' = (errored \/ throws)
              /\ last' = Step(IF throws THEN "SystemPreferenceThrows"
                              ELSE "SystemPreferenceChange", flag # dark)
    /\ UNCHANGED <<pc, visibility, switching, overlayOpacity, overlayColor, ripples,
                   timers, events, clicks, loads, startLog, prevInit, wired, writes,
                   origin, storage, media, hosts, env, site>>

\* variant: the guard the wrong way round
SystemPreferenceChangeInverted ==
    /\ media
    /\ \E matches \in BOOLEAN :
        /\ matches # prefersDark
        /\ prefersDark' = matches
        /\ LET throws == storage = "blocked"
               flag == IF throws THEN dark
                       ELSE IF Truthy(theme)
                            THEN IF matches THEN TRUE ELSE FALSE
                            ELSE dark
           IN /\ dark' = flag
              /\ theme' = theme
              /\ errored' = (errored \/ throws)
              /\ last' = Step(IF throws THEN "SystemPreferenceThrows"
                              ELSE "SystemPreferenceChange", flag # dark)
    /\ UNCHANGED <<pc, visibility, switching, overlayOpacity, overlayColor, ripples,
                   timers, events, clicks, loads, startLog, prevInit, wired, writes,
                   origin, storage, media, hosts, env, site>>

\* variant: the listener stores the system preference it applied
SystemPreferenceChangePersists ==
    /\ media
    /\ \E matches \in BOOLEAN :
        /\ matches # prefersDark
        /\ prefersDark' = matches
        /\ LET throws == storage = "blocked"
               flag == IF throws THEN dark
                       ELSE IF ~Truthy(theme)
                            THEN IF matches THEN TRUE ELSE FALSE
                            ELSE dark
           IN /\ dark' = flag
              /\ theme' = IF ~throws /\ ~Truthy(theme)
                          THEN IF matches THEN "dark" ELSE "light"
                          ELSE theme
              /\ errored' = (errored \/ throws)
              /\ last' = Step(IF throws THEN "SystemPreferenceThrows"
                              ELSE "SystemPreferenceChange", flag # dark)
    /\ UNCHANGED <<pc, visibility, switching, overlayOpacity, overlayColor, ripples,
                   timers, events, clicks, loads, startLog, prevInit, wired, writes,
                   origin, storage, media, hosts, env, site>>

\* variant: with a stored preference the listener re-applies it to the class
SystemPreferenceChangeReapplies ==
    /\ media
    /\ \E matches \in BOOLEAN :
        /\ matches # prefersDark
        /\ prefersDark' = matches
        /\ LET throws == storage = "blocked"
               flag == IF throws THEN dark
                       ELSE IF ~Truthy(theme)
                            THEN IF matches THEN TRUE ELSE FALSE
                            ELSE IF theme = "dark" THEN TRUE
                            ELSE IF theme = "light" THEN FALSE
                            ELSE dark
           IN /\ dark' = flag
              /\ theme' = theme
              /\ errored' = (errored \/ throws)
              /\ last' = Step(IF throws THEN "SystemPreferenceThrows"
                              ELSE "SystemPreferenceChange", flag # dark)
    /\ UNCHANGED <<pc, visibility, switching, overlayOpacity, overlayColor, ripples,
                   timers, events, clicks, loads, startLog, prevInit, wired, writes,
                   origin, storage, media, hosts, env, site>>

\* the change listener of the prefers-color-scheme media query, registered
\* only when matchMedia exists; getItem (line 180) throwing ends it
SystemPreferenceChange ==
    /\ media
    /\ \E matches \in BOOLEAN :
        /\ matches # prefersDark
        /\ prefersDark' = matches
        /\ LET throws == storage = "blocked"
               flag == IF throws THEN dark
                       ELSE IF ~Truthy(theme)
                            THEN IF matches THEN TRUE ELSE FALSE
                            ELSE dark
           IN /\ dark' = flag
              /\ theme' = theme
              /\ errored' = (errored \/ throws)
              /\ last' = Step(IF throws THEN "SystemPreferenceThrows"
                              ELSE "SystemPreferenceChange", flag # dark)
    /\ UNCHANGED <<pc, visibility, switching, overlayOpacity, overlayColor, ripples,
                   timers, events, clicks, loads, startLog, prevInit, wired, writes,
                   origin, storage, media, hosts, env, site>>

\* another script, an extension or the devtools adds or removes the 'dark' class
ExternalForce ==
    /\ pc = "ready"
    /\ visibility = "hidden"
    /\ dark' = ~dark
    /\ last' = Step("ExternalForce", TRUE)
    /\ UNCHANGED <<pc, theme, prefersDark, visibility, switching, overlayOpacity,
                   overlayColor, ripples, timers, events, clicks, loads, startLog,
                   prevInit, wired, errored, writes, origin, storage, media, hosts,
                   env, site>>

\* localStorage starts or stops accepting writes (the origin's quota is
\* exhausted or freed); reads keep working
StorageChange ==
    /\ storage \in {"ok", "readonly"}
    /\ storage' = IF storage = "ok" THEN "readonly" ELSE "ok"
    /\ last' = Step("StorageChange", FALSE)
    /\ UNCHANGED <<pc, theme, prefersDark, visibility, dark, switching, overlayOpacity,
                   overlayColor, ripples, timers, events, clicks, loads, startLog,
                   prevInit, wired, errored, writes, origin, media, hosts, env, site>>

\* line 126 executed by another page of the same origin: its toggle stores a
\* value in the shared localStorage; this page's document is not touched
OtherPageWrite ==
    /\ storage = "ok"
    /\ \E v \in {"light", "dark"} :
        /\ v # theme
        /\ theme' = v
    /\ last' = Step("OtherPageWrite", FALSE)
    /\ UNCHANGED <<pc, prefersDark, visibility, dark, switching, overlayOpacity,
                   overlayColor, ripples, timers, events, clicks, loads, startLog,
                   prevInit, wired, errored, writes, origin, storage, media, hosts,
                   env, site>>

\* the page is reloaded: a new document, the same localStorage
Reload ==
    /\ pc = "ready"
    /\ loads < MaxLoads
    /\ loads' = loads + 1
    /\ pc' = "loading"
    /\ visibility' = "visible"
    /\ dark' \in BOOLEAN
    /\ switching' = FALSE
    /\ overlayOpacity' = 0
    /\ overlayColor' = ""
    /\ ripples' = {}
    /\ hosts' = {}
    /\ timers' = <<>>
    /\ events' = <<>>
    /\ wired' = FALSE
    /\ errored' = ~media
    /\ writes' = 0
    /\ origin' = NoOrigin
    /\ last' = Step("Load", FALSE)
    /\ UNCHANGED <<theme, prefersDark, clicks, startLog, prevInit, storage, media, env,
                   site>>

(* ------------------------- specifications ------------------------------ *)

\* the state in which astro.config.mjs is loaded: no document exists yet
InitSite ==
    /\ pc = "build"
    /\ theme = NoItem
    /\ prefersDark = FALSE
    /\ visibility = "visible"
    /\ dark = FALSE
    /\ switching = FALSE
    /\ overlayOpacity = 0
    /\ overlayColor = ""
    /\ ripples = {}
    /\ timers = <<>>
    /\ events = <<>>
    /\ clicks = 0
    /\ loads = 1
    /\ startLog = <<>>
    /\ prevInit = NoInit
    /\ last = Step("Load", FALSE)
    /\ wired = FALSE
    /\ writes = 0
    /\ origin = NoOrigin
    /\ hosts = {}
    /\ storage = "ok"
    /\ media = TRUE
    /\ errored = FALSE
    /\ env \in [VERCEL_URL : EnvValues, VERCEL_BRANCH_URL : EnvValues]
    /\ site = NoSite

\* astro.config.mjs line 21: site: getSiteURL()
EvaluateConfig ==
    /\ pc = "build"
    /\ site' = getSiteURL(env)
    /\ last' = Step("EvaluateConfig", FALSE)
    /\ UNCHANGED <<pc, theme, prefersDark, visibility, dark, switching, overlayOpacity,
                   overlayColor, ripples, timers, events, clicks, loads, startLog,
                   prevInit, wired, errored, writes, origin, storage, media, hosts,
                   env>>

\* the next build runs in another environment
ChangeEnvironment ==
    /\ pc = "build"
    /\ \E e \in [VERCEL_URL : EnvValues, VERCEL_BRANCH_URL : EnvValues] :
        /\ e # env
        /\ env' = e
    /\ last' = Step("ChangeEnvironment", FALSE)
    /\ UNCHANGED <<pc, theme, prefersDark, visibility, dark, switching, overlayOpacity,
                   overlayColor, ripples, timers, events, clicks, loads, startLog,
                   prevInit, wired, errored, writes, origin, storage, media, hosts,
                   site>>

Next ==
    \/ Initialize
    \/ ToggleStart
    \/ Tick
    \/ FirstCallback
    \/ SecondCallback
    \/ VisibilityChange
    \/ SystemPreferenceChange

Spec == Init /\ [][Next]_vars

\* scheduled callbacks run once their delay has elapsed, and time passes
FairSpec ==
    /\ Spec
    /\ WF_vars(Tick)
    /\ WF_vars(FirstCallback)
    /\ WF_vars(SecondCallback)

NextEnv ==
    \/ Next
    \/ ExternalForce
    \/ Reload

\* the controller together with external mutation of the flag and page reloads
SpecEnv == Init /\ [][NextEnv]_vars

NextFail ==
    \/ Next
    \/ StorageChange

\* the controller in a browser where localStorage or matchMedia may fail
SpecFail == InitFail /\ [][NextFail]_vars

NextPages ==
    \/ Initialize
    \/ ToggleStart
    \/ Tick
    \/ FirstCallback
    \/ SecondCallback
    \/ VisibilityChange
    \/ OtherPageWrite

\* one page of an origin whose other pages store preferences as well, under
\* an OS preference that does not change
SpecPages == Init /\ [][NextPages]_vars

NextControls ==
    \/ Next
    \/ ToggleStartOn

\* the controller with two controls, each clicked or touched
SpecControls == Init /\ [][NextControls]_vars

NextSite ==
    \/ EvaluateConfig
    \/ ChangeEnvironment

\* builds of the site in the environments of EnvValues
SpecSite == InitSite /\ [][NextSite]_vars

NextJunk ==
    \/ Next
    \/ ExternalForce

\* the controller started on a stored item it did not write, with external
\* mutation of the flag
SpecJunk == InitJunk /\ [][NextJunk]_vars

NextOrigin ==
    \/ Next
    \/ ToggleStartAnywhere

\* the controller with clicks and touches at any position of the control
SpecOrigin == Init /\ [][NextOrigin]_vars

TypeOK ==
    /\ pc \in {"build", "loading", "ready"}
    /\ theme \in StoredValues \cup JunkValues
    /\ prefersDark \in BOOLEAN
    /\ visibility \in {"visible", "hidden"}
    /\ dark \in BOOLEAN
    /\ switching \in BOOLEAN
    /\ overlayOpacity \in {0, 1}
    /\ clicks \in 0..MaxToggles
    /\ loads \in 1..MaxLoads
    /\ Len(events) <= clicks
    /\ Len(startLog) = clicks
    /\ storage \in StorageModes
    /\ media \in BOOLEAN
    /\ wired \in BOOLEAN
    /\ errored \in BOOLEAN
    /\ writes \in 0..MaxToggles
    /\ origin \in Points \cup {NoOrigin}
                \cup {Position(e, c) : e \in PointerEvents, c \in Controls}
    /\ hosts \subseteq (1..MaxToggles) \X Controls
    /\ env \in [VERCEL_URL : EnvValues, VERCEL_BRANCH_URL : EnvValues]
    /\ site \in STRING

(* ------------------------------ claims --------------------------------- *)

\* the name under which a mode is persisted
ModeName(isDarkMode) == IF isDarkMode THEN "dark" ELSE "light"

\* toggle k is the only toggle in flight and its first delay has not elapsed
AloneInFlight(k) ==
    /\ clicks = k
    /\ Len(timers) = 1
    /\ timers[1].kind = "first"
    /\ Len(events) = k - 1

\* toggles k and k+1 were each started with no first-delay callback pending,
\* both have been applied, and no later toggle has started
AppliedTwice(k) ==
    /\ clicks = k + 1
    /\ Len(events) = k + 1
    /\ startLog[k].fired = k - 1
    /\ startLog[k + 1].fired = k

\* C1: in every state reached after initialize() by toggle starts, the two
\* delayed callbacks, OS-preference changes and visibility changes, the 'dark'
\* class is present exactly when the effective mode (stored preference if
\* present, else the OS signal) is dark.
C1_FlagMatchesEffectiveMode == pc = "ready" => dark = EffectiveDark

C1_Witness ==
    /\ pc = "ready"
    /\ clicks = 2
    /\ last.op = "FirstCallback"
    /\ last.flagChanged
    /\ startLog[2].item = NoItem
    /\ dark = EffectiveDark

\* C2: a toggle started from effective mode d that is the only one in flight
\* leads, unless another toggle starts first, to a state where both callbacks
\* have run, the flag is the opposite of d, the stored value names the opposite
\* of d, and exactly one more themeChanged event was dispatched, carrying
\* isDark = opposite of d.
C2_ToggleCorrectness ==
    \A k \in 1..MaxToggles : \A d \in BOOLEAN :
        (AloneInFlight(k) /\ startLog[k].effective = d)
            ~> (\/ clicks > k
                \/ /\ timers = <<>>
                   /\ dark = ~d
                   /\ theme = ModeName(~d)
                   /\ Len(events) = k
                   /\ events[k] = ~d)

C2_Witness ==
    /\ clicks = 1
    /\ last.op = "SecondCallback"
    /\ timers = <<>>
    /\ startLog[1].effective = FALSE
    /\ dark
    /\ theme = "dark"
    /\ events = <<TRUE>>

\* C3 as stated: once a toggle has been started, no OS-preference change
\* alters the flag.
C3_Original ==
    [][(clicks >= 1 /\ prefersDark' # prefersDark) => dark' = dark]_vars

\* C3 amended: once the first-delay callback of a toggle has run (and so has
\* persisted the choice), no OS-preference change alters the flag or the
\* effective mode.
C3_PrecedenceOncePersisted ==
    [][(Len(events) >= 1 /\ prefersDark' # prefersDark)
          => (dark' = dark /\ EffectiveDark' = EffectiveDark)]_vars

C3_Witness ==
    /\ last.op = "SystemPreferenceChange"
    /\ Len(events) >= 1
    /\ dark # prefersDark

\* C4 as stated: two toggles applied one after the other return the flag and
\* the stored value to what they were when the first of them started.
C4_Original ==
    \A k \in 1..(MaxToggles - 1) :
        AppliedTwice(k) => (dark = startLog[k].dark /\ theme = startLog[k].item)

\* C4 amended: two toggles applied one after the other return the flag to what
\* it was; the stored value returns to what it was when a preference was
\* stored, and names the original mode when none was.
C4_RoundTrip ==
    \A k \in 1..(MaxToggles - 1) :
        AppliedTwice(k) =>
            /\ dark = startLog[k].dark
            /\ theme = IF startLog[k].item = NoItem
                       THEN ModeName(startLog[k].dark)
                       ELSE startLog[k].item

C4_Witness ==
    /\ AppliedTwice(1)
    /\ startLog[1].item = NoItem
    /\ startLog[1].dark
    /\ theme = "dark"

\* C5: with no stored preference, initialize() sets the flag to the OS signal
\* and writes nothing to localStorage.
C5_DefaultFallback ==
    [][(pc = "loading" /\ pc' = "ready" /\ theme = NoItem)
          => (dark' = prefersDark /\ theme' = NoItem)]_vars

C5_Witness ==
    /\ last.op = "Initialize"
    /\ last.flagChanged
    /\ theme = NoItem
    /\ prefersDark
    /\ dark

\* C6: when the page becomes visible again and a preference is stored, the flag
\* is left equal to the stored preference, whatever the flag was forced to and
\* whatever the OS signal says.
C6_VisibilityRestoration ==
    [][(last'.op = "VisibilityRestored" /\ theme \in {"light", "dark"})
          => (dark' = (theme = "dark") /\ theme' = theme)]_vars

C6_Witness ==
    /\ last.op = "VisibilityRestored"
    /\ last.flagChanged
    /\ theme = "light"
    /\ prefersDark
    /\ ~dark

\* C7: a run of initialize() that sees the same stored value and the same OS
\* signal as the previous run leaves the same flag, whatever the flag was
\* before it ran.
C7_InitializeIdempotent ==
    [][(last'.op = "Initialize" /\ prevInit.seen
          /\ prevInit.item = theme /\ prevInit.os = prefersDark)
          => dark' = prevInit.flag]_vars

C7_Witness ==
    /\ last.op = "Initialize"
    /\ last.flagChanged
    /\ prevInit.repeat
    /\ loads = 2

\* C8: the stored preference changes only in the first-delay callback of a
\* toggle, which writes "light" or "dark"; initialize(), OS-preference changes
\* and visibility changes leave it alone, and once set it is never unset.
C8_PersistedOnlyByToggle ==
    [][/\ theme' # theme => (last'.op = "FirstCallback" /\ theme' \in {"light", "dark"})
       /\ theme # NoItem => theme' # NoItem]_vars

C8_Witness ==
    /\ last.op = "Initialize"
    /\ loads = 2
    /\ Len(startLog) >= 1
    /\ theme = ModeName(~startLog[1].dark)
    /\ startLog[1].item = NoItem

\* C9: while no preference is stored, an OS-preference change sets the flag to
\* the new signal in the same step, also while a toggle is in flight.
C9_FollowsSystemWhileUnset ==
    [][(prefersDark' # prefersDark /\ theme = NoItem) => dark' = prefersDark']_vars

C9_Witness ==
    /\ last.op = "SystemPreferenceChange"
    /\ last.flagChanged
    /\ theme = NoItem
    /\ timers # <<>>
    /\ dark = prefersDark

\* C10: every toggle start is eventually followed by a state with the overlay
\* hidden and 'theme-switching' cleared, and a scheduled callback leaves the
\* timer queue only by running.
C10_TransitionTerminates ==
    /\ \A k \in 1..MaxToggles :
          (clicks = k /\ last.op = "ToggleStart")
              ~> (overlayOpacity = 0 /\ ~switching)
    /\ [][\A i \in 1..Len(timers) :
            \/ \E j \in 1..Len(timers') :
                  /\ timers'[j].id = timers[i].id
                  /\ timers'[j].kind = timers[i].kind
            \/ /\ i = DueTimer
               /\ last'.op \in {"FirstCallback", "SecondCallback"}]_vars

C10_Witness ==
    /\ last.op = "SecondCallback"
    /\ clicks = 2
    /\ timers = <<>>
    /\ overlayOpacity = 0
    /\ ~switching

\* C11 as stated: when localStorage or matchMedia fail, no operation surfaces
\* an error, the toggle controls are wired, initialize() leaves the light
\* default when both are unavailable, and every toggle completes (its event is
\* dispatched and its transition ends).
C11_FailureSemantics ==
    pc = "ready" =>
        /\ ~errored
        /\ wired
        /\ (storage = "blocked" /\ ~media /\ last.op = "InitializeThrows") => ~dark
        /\ (clicks > 0 /\ timers = <<>>) => (Len(events) = clicks /\ ~switching)

\* C12 as stated: the new theme of every toggle is the opposite of the
\* effective mode at its start.
C12_Original ==
    \A k \in 1..Len(startLog) :
        startLog[k].newTheme = ModeName(~startLog[k].effective)

\* C12 amended: the new theme of every toggle is the opposite of the 'dark'
\* class at its start, which is the opposite of the effective mode whenever the
\* class agrees with the effective mode.
C12_NewModeFromFlag ==
    \A k \in 1..Len(startLog) :
        /\ startLog[k].newTheme = ModeName(~startLog[k].dark)
        /\ startLog[k].dark = startLog[k].effective
              => startLog[k].newTheme = ModeName(~startLog[k].effective)

C12_Witness ==
    /\ last.op = "ToggleStart"
    /\ startLog[clicks].dark # startLog[clicks].effective
    /\ startLog[clicks].newTheme = ModeName(startLog[clicks].effective)

\* C13: a toggle start shows the overlay and sets 'theme-switching' without
\* touching the class, the stored value or the events; the first-delay
\* callback sets the class, stores the new theme, dispatches the event and
\* schedules the second callback in one step, leaving the overlay shown; the
\* overlay is hidden and 'theme-switching' cleared only by a second-delay
\* callback, and only of a toggle whose theme has already been applied.
C13_ToggleOrdering ==
    [][/\ last'.op = "ToggleStart"
            => (overlayOpacity' = 1 /\ switching' /\ UNCHANGED <<dark, theme, events>>)
       /\ last'.op = "FirstCallback"
            => LET t == timers[DueTimer]
               IN /\ dark' = ~t.isDark
                  /\ theme' = ModeName(~t.isDark)
                  /\ events' = Append(events, ~t.isDark)
                  /\ \E j \in 1..Len(timers') :
                        /\ timers'[j].id = t.id
                        /\ timers'[j].kind = "second"
                        /\ timers'[j].remaining = SecondDelay
                  /\ UNCHANGED <<overlayOpacity, switching>>
       /\ ((overlayOpacity = 1 /\ overlayOpacity' = 0) \/ (switching /\ ~switching'))
            => (last'.op = "SecondCallback" /\ timers[DueTimer].id <= Len(events))]_vars

C13_Witness ==
    /\ last.op = "SecondCallback"
    /\ clicks = 1
    /\ Len(events) = 1
    /\ dark = ~startLog[1].dark
    /\ overlayOpacity = 0
    /\ ~switching

\* C14: every themeChanged event carries isDark equal to the 'dark' class and
\* to the stored value (isDark exactly when "dark" is stored) in the state in
\* which it is dispatched.
C14_EventMatchesState ==
    [][Len(events') > Len(events)
          => LET e == events'[Len(events')]
             IN /\ e = dark'
                /\ e = (theme' = "dark")
                /\ theme' \in {"light", "dark"}]_vars

C14_Witness ==
    /\ last.op = "FirstCallback"
    /\ events[Len(events)] = FALSE
    /\ ~dark
    /\ theme = "light"
    /\ prefersDark

\* C15: on a reload with a stored preference, initialize() leaves the class
\* equal to the stored preference whatever the OS signal and whatever the
\* class of the fresh document, and keeps the stored value.
C15_PreferenceSurvivesReload ==
    [][(last'.op = "Initialize" /\ loads > 1 /\ theme \in {"light", "dark"})
          => (dark' = (theme = "dark") /\ theme' = theme)]_vars

C15_Witness ==
    /\ last.op = "Initialize"
    /\ last.flagChanged
    /\ loads = 2
    /\ clicks >= 1
    /\ startLog[1].item = NoItem
    /\ theme = "light"
    /\ prefersDark
    /\ ~dark

\* C16: every completed write to localStorage stores "light" or "dark", and the
\* stored item is always unset, "light" or "dark".
C16_StoredValueDomain ==
    /\ [](theme \in {NoItem, "light", "dark"})
    /\ [][writes' > writes => theme' \in {"light", "dark"}]_vars

C16_Witness ==
    /\ last.op = "FirstCallback"
    /\ writes = 2
    /\ startLog[1].item = NoItem
    /\ theme = "light"

\* C17: the position of the click or touch does not influence a toggle: a
\* toggle step taken at one position is, on every variable other than the
\* custom properties --x and --y, the step the handler takes at every other
\* position, and no other step reads or writes those properties.
C17_OriginIndependence ==
    [][/\ last'.op = "ToggleStart" => \A q \in Points : ToggleLow(q)
       /\ origin' # origin => (last'.op = "ToggleStart" /\ origin' \in Points)]_vars

C17_Witness ==
    /\ origin = <<-2, -5>>
    /\ clicks = 2
    /\ Len(events) = 2
    /\ timers = <<>>
    /\ dark = startLog[1].dark

\* C18 as stated: with no stored preference and an OS signal that is
\* unavailable or reports light, initialize() clears the class, and
\* initialize() never raises an error.
C18_InitializeLightDefault ==
    [][(pc = "loading" /\ pc' = "ready")
          => /\ last'.op # "InitializeThrows"
             /\ (theme = NoItem /\ (~media \/ ~prefersDark)) => ~dark']_vars

\* C19: the number of dispatched events, and of completed writes, equals the
\* number of toggles whose first delay has elapsed; each first-delay callback
\* adds exactly one event and one write, and no other step adds any, even when
\* it changes the class.
C19_OneEventPerToggle ==
    /\ [](/\ Len(events) = clicks - Cardinality({i \in 1..Len(timers) :
                                                   timers[i].kind = "first"})
          /\ writes = Len(events))
    /\ [][IF last'.op = "FirstCallback"
          THEN Len(events') = Len(events) + 1 /\ writes' = writes + 1
          ELSE events' = events /\ writes' = writes]_vars

C19_Witness ==
    /\ last.op = "SystemPreferenceChange"
    /\ clicks = 2
    /\ Len(events) = 1
    /\ writes = 1
    /\ Len(timers) = 2

\* C20: with a stored preference, an OS-preference change to either value
\* leaves the class, the stored value, the overlay, 'theme-switching', the
\* pending callbacks and the dispatched events unchanged.
C20_SystemChangeNoOp ==
    [][(prefersDark' # prefersDark /\ theme \in {"light", "dark"})
          => UNCHANGED <<dark, theme, overlayOpacity, overlayColor, switching,
                         events, timers, ripples, writes>>]_vars

C20_Witness ==
    /\ last.op = "SystemPreferenceChange"
    /\ theme = "light"
    /\ dark
    /\ ~prefersDark

\* C21: the first-delay callback of a toggle sets the 'dark' class and the
\* stored value to the opposite of the class the listener read when the toggle
\* started, whatever happened to the class in between (an OS-preference
\* change, a visibility restore, another toggle's callback).
C21_ModeCapturedAtStart ==
    [][last'.op = "FirstCallback"
       => LET id == timers[DueTimer].id
          IN /\ dark' = ~startLog[id].dark
             /\ theme' = ModeName(~startLog[id].dark)]_vars

\* the first-delay callback of the only toggle so far has fired on a class that
\* had already been moved, since the toggle started, to the value it sets
C21_Witness ==
    /\ last.op = "FirstCallback"
    /\ ~last.flagChanged
    /\ clicks = 1
    /\ Len(events) = 1
    /\ dark = ~startLog[1].dark
    /\ theme = ModeName(dark)

\* toggle k+1 started before the first-delay callback of toggle k had fired
Overlapping(k) == k + 1 <= clicks /\ startLog[k + 1].fired < k

\* C22 as stated: whenever a second toggle starts before the first toggle's
\* first-delay callback has fired, both compute the same new mode and emit
\* the same isDark; a second toggle computes the other mode only if it
\* starts after that callback.
C22_Original ==
    \A k \in 1..(MaxToggles - 1) :
        Overlapping(k)
        => /\ startLog[k + 1].newTheme = startLog[k].newTheme
           /\ Len(events) >= k + 1 => events[k + 1] = events[k]

\* C22: when a second toggle starts before the first toggle's first-delay
\* callback has fired and reads the same class as the first did, both compute
\* the same new mode; once both callbacks have fired the class and the stored
\* value have changed once and the two events carry the same isDark. A toggle
\* that starts after the previous toggle's first-delay callback computes the
\* other mode.
C22_DoubleClick ==
    \A k \in 1..(MaxToggles - 1) :
        /\ (Overlapping(k) /\ startLog[k + 1].dark = startLog[k].dark)
           => /\ startLog[k + 1].newTheme = startLog[k].newTheme
              /\ Len(events) >= k + 1 => events[k + 1] = events[k]
              /\ (Len(events) = k + 1 /\ clicks = k + 1)
                 => /\ dark = ~startLog[k].dark
                    /\ theme = ModeName(~startLog[k].dark)
        /\ (k + 1 <= clicks /\ ~Overlapping(k))
           => startLog[k + 1].newTheme # startLog[k].newTheme

\* two overlapping toggles have both completed
C22_Witness ==
    /\ clicks = 2
    /\ Overlapping(1)
    /\ startLog[2].dark = startLog[1].dark
    /\ Len(events) = 2
    /\ events[1] = events[2]
    /\ timers = <<>>
    /\ dark = ~startLog[1].dark

\* C23: while any toggle is in flight (a callback of it is still scheduled)
\* 'theme-switching' is set and the overlay is opaque; the second-delay
\* callback of an earlier toggle does not end the transition of a later one.
C23_TransitionHeldWhileInFlight ==
    timers # <<>> => (switching /\ overlayOpacity = 1)

\* C24: whenever a first-delay callback applies its mode to the 'dark' class
\* the overlay is opaque at that moment, and the overlay is made transparent
\* only when no toggle is still waiting to apply its mode.
C24_OverlayCoversThemeChange ==
    [][/\ last'.op = "FirstCallback" => overlayOpacity = 1
       /\ (overlayOpacity = 1 /\ overlayOpacity' = 0)
          => \A i \in 1..Len(timers') : timers'[i].kind # "first"]_vars

\* C25: in every state with no callback scheduled and at least one toggle
\* applied, the overlay is transparent, 'theme-switching' is cleared, and the
\* 'dark' class equals the stored value, which is the value written by the
\* toggle whose first-delay callback fired last.
C25_QuiescentConsistency ==
    (timers = <<>> /\ Len(events) >= 1)
    => /\ overlayOpacity = 0
       /\ ~switching
       /\ theme = ModeName(events[Len(events)])
       /\ dark = (theme = "dark")

\* two overlapping toggles have completed and nothing is scheduled
C25_Witness ==
    /\ timers = <<>>
    /\ Len(events) = 2
    /\ Overlapping(1)
    /\ overlayOpacity = 0
    /\ ~switching
    /\ dark = (theme = "dark")

\* C26: with nothing stored, a visibility restore leaves the 'dark' class as
\* it is; a class that disagrees with the OS preference while nothing is
\* stored keeps disagreeing until an OS-preference change, a toggle's
\* first-delay callback or a reload (or another outside change of the class).
C26_VisibilityRestoreUnset ==
    [][/\ (last'.op = "VisibilityRestored" /\ theme = NoItem) => dark' = dark
       /\ (pc = "ready" /\ theme = NoItem /\ dark # prefersDark
           /\ (pc' # "ready" \/ theme' # NoItem \/ dark' = prefersDark'))
          => last'.op \in {"SystemPreferenceChange", "FirstCallback", "Load",
                           "ExternalForce"}]_vars

\* the page became visible again with nothing stored and the class still
\* disagrees with the OS preference
C26_Witness ==
    /\ last.op = "VisibilityRestored"
    /\ theme = NoItem
    /\ pc = "ready"
    /\ dark # prefersDark

\* C27 as stated: a first-delay callback whose write throws has set the class
\* to the toggle's mode, emits nothing and schedules no second callback; from
\* then on the overlay stays opaque and 'theme-switching' stays set, and the
\* class differs from the stored preference.
C27_Original ==
    [][/\ last'.op = "FirstCallbackThrows"
          => LET id == timers[DueTimer].id
             IN /\ dark' = ~startLog[id].dark
                /\ events' = events
                /\ \A i \in 1..Len(timers') : timers'[i].id # id
                /\ switching' /\ overlayOpacity' = 1
                /\ Truthy(theme') => dark' # (theme' = "dark")
       /\ (wired /\ errored /\ switching)
          => (switching' /\ overlayOpacity' = 1)]_vars

\* C27: a first-delay callback whose write throws has set the class to the
\* opposite of the class read at the toggle's start, leaves the stored value,
\* the events, the overlay and 'theme-switching' as they were and schedules no
\* second callback for its toggle; the overlay and the class are cleared only
\* by the second callback of a toggle whose write succeeded; the class differs
\* from the stored preference when the toggle started with the class equal to
\* a stored preference that is still the stored value.
C27_WriteFailure ==
    [][/\ last'.op = "FirstCallbackThrows"
          => LET id == timers[DueTimer].id
             IN /\ dark' = ~startLog[id].dark
                /\ theme' = theme /\ events' = events /\ writes' = writes
                /\ switching' = switching /\ overlayOpacity' = overlayOpacity
                /\ \A i \in 1..Len(timers') : timers'[i].id # id
                /\ (/\ Truthy(theme)
                    /\ startLog[id].item = theme
                    /\ startLog[id].dark = (theme = "dark"))
                   => dark' # (theme' = "dark")
       /\ (\E i \in 1..Len(timers') :
              /\ timers'[i].kind = "second"
              /\ \A j \in 1..Len(timers) :
                    ~(timers[j].id = timers'[i].id /\ timers[j].kind = "second"))
          => last'.op = "FirstCallback"
       /\ ((switching /\ ~switching') \/ (overlayOpacity = 1 /\ overlayOpacity' = 0))
          => last'.op = "SecondCallback"]_vars

\* the write of the only toggle so far has thrown: the class has moved away
\* from the stored preference, nothing was emitted, nothing is scheduled and
\* the transition state is still set
C27_Witness ==
    /\ last.op = "FirstCallbackThrows"
    /\ clicks = 1
    /\ Truthy(theme)
    /\ dark # (theme = "dark")
    /\ events = <<>>
    /\ timers = <<>>
    /\ switching
    /\ overlayOpacity = 1

\* C28: a value stored by another page of the origin does not touch this
\* page's 'dark' class; a visibility restore or initialize() with a stored
\* value makes the class equal it; a toggle started in between computes its
\* new mode from this page's class, not from the stored value.
C28_PagesShareStoreOnly ==
    [][/\ last'.op = "OtherPageWrite" => (dark' = dark /\ theme' # theme)
       /\ (last'.op \in {"VisibilityRestored", "Initialize"} /\ Truthy(theme'))
          => dark' = (theme' = "dark")
       /\ last'.op = "ToggleStart"
          => startLog'[clicks'].newTheme = ModeName(~dark)]_vars

\* this page's only toggle started while its class disagreed with the value
\* another page had stored, and its callback stored that same value again
C28_Witness ==
    /\ last.op = "FirstCallback"
    /\ clicks = 1
    /\ Len(events) = 1
    /\ Truthy(startLog[1].item)
    /\ startLog[1].dark # (startLog[1].item = "dark")
    /\ startLog[1].newTheme = startLog[1].item
    /\ theme = startLog[1].item

\* C29: every control accepts a click or a touchend exactly when the main
\* control accepts a click; a toggle started from any control by either event
\* is, on every variable except the pointer position and the ripple's parent,
\* the step a click on the main control takes; every step of the page with
\* several controls is then a step of the page with one control, and each
\* ripple hangs on exactly one control.
C29_ControlsShareBehaviour ==
    /\ [](\A c \in Controls, e \in PointerEvents :
            ENABLED ToggleStartFrom(c, Position(e, c)) <=> ENABLED ToggleStart)
    /\ [][/\ last'.op = "ToggleStart"
             => /\ \A c \in Controls, e \in PointerEvents : ToggleLow(Position(e, c))
                /\ \E c \in Controls : hosts' = hosts \cup {<<clicks', c>>}
          /\ \/ ToggleLow(Centre)
             \/ Initialize
             \/ Tick
             \/ FirstCallback
             \/ SecondCallback
             \/ VisibilityChange
             \/ SystemPreferenceChange]_vars
    /\ [](/\ {h[1] : h \in hosts} = ripples
          /\ Cardinality(hosts) = Cardinality(ripples))

\* two toggles started from different controls, one by touchend away from the
\* main control's centre, are in flight together
C29_Witness ==
    /\ clicks = 2
    /\ Cardinality({h[2] : h \in hosts}) = 2
    /\ Len(timers) = 2
    /\ origin = Position([type |-> "touchend", client |-> <<>>, touch |-> <<13, 3>>],
                         "menu")

\* C30: getSiteURL yields "https://" followed by VERCEL_URL whenever
\* VERCEL_URL is set and non-empty, whatever VERCEL_BRANCH_URL is; otherwise
\* "https://" followed by VERCEL_BRANCH_URL when that is set and non-empty;
\* otherwise "http://localhost:4321"; the result is never empty.
C30_SiteURL ==
    [][last'.op = "EvaluateConfig"
       => LET u == env.VERCEL_URL
              b == env.VERCEL_BRANCH_URL
          IN /\ u \notin {NoEnv, ""} => site' = "https://" \o u
             /\ (u \in {NoEnv, ""} /\ b \notin {NoEnv, ""}) => site' = "https://" \o b
             /\ (u \in {NoEnv, ""} /\ b \in {NoEnv, ""})
                => site' = "http://localhost:4321"
             /\ site' # ""]_vars

\* a build with both variables set has taken VERCEL_URL
C30_Witness ==
    /\ last.op = "EvaluateConfig"
    /\ env.VERCEL_URL = "blog.vercel.app"
    /\ env.VERCEL_BRANCH_URL = "blog-git-dev.vercel.app"
    /\ site = "https://blog.vercel.app"

\* C32: a toggle's listener adds one ripple and the toggle's own second-delay
\* callback removes that ripple and no other: in every state the ripples are
\* those of the toggles that still have a callback scheduled, one each, and
\* there is none once no callback is scheduled.
C32_RipplesMatchInFlight ==
    /\ [](/\ ripples = {timers[i].id : i \in 1..Len(timers)}
          /\ Cardinality(ripples) = Len(timers)
          /\ timers = <<>> => ripples = {})
    /\ [][/\ last'.op = "ToggleStart"
             => (clicks' \notin ripples /\ ripples' = ripples \cup {clicks'})
          /\ last'.op = "SecondCallback"
             => LET id == timers[DueTimer].id
                IN id \in ripples /\ ripples' = ripples \ {id}]_vars

\* the first toggle's second-delay callback has removed its ripple while the
\* second toggle's ripple is still there
C32_Witness ==
    /\ last.op = "SecondCallback"
    /\ clicks = 2
    /\ ripples = {2}
    /\ Len(timers) = 1
    /\ timers[1].id = 2

\* v is a stored string other than 'light' and 'dark'
Unrecognised(v) == v \notin {NoItem, "light", "dark"}

\* C31 as stated: with a stored value that is neither 'light' nor 'dark',
\* initialize() clears the class whatever the OS preference is, a visibility
\* restore leaves the class alone, and an OS-preference change leaves the
\* class alone when the value is a non-empty string.
C31_Original ==
    [][/\ (last'.op = "Initialize" /\ Unrecognised(theme)) => ~dark'
       /\ (last'.op = "VisibilityRestored" /\ Unrecognised(theme)) => dark' = dark
       /\ (last'.op = "SystemPreferenceChange" /\ Unrecognised(theme) /\ theme # "")
          => dark' = dark]_vars

\* C31: with a stored non-empty string other than 'light' and 'dark',
\* initialize() clears the class whatever the OS preference is and an
\* OS-preference change leaves the class alone; with the empty string stored,
\* initialize() and an OS-preference change set the class from the OS
\* preference, as with nothing stored; a visibility restore leaves the class
\* alone for every stored value other than 'light' and 'dark'; none of the
\* three writes the stored value.
C31_UnrecognisedValue ==
    [][/\ (last'.op = "Initialize" /\ Unrecognised(theme))
          => dark' = (theme = "" /\ prefersDark)
       /\ (last'.op = "VisibilityRestored" /\ Unrecognised(theme)) => dark' = dark
       /\ (last'.op = "SystemPreferenceChange" /\ Unrecognised(theme))
          => dark' = (IF theme = "" THEN prefersDark' ELSE dark)
       /\ (/\ last'.op \in {"Initialize", "VisibilityRestored",
                            "SystemPreferenceChange"}
           /\ Unrecognised(theme))
          => theme' = theme]_vars

\* initialize() has cleared a class that was set, with a non-empty
\* unrecognised value stored and the OS preferring dark
C31_Witness ==
    /\ last.op = "Initialize"
    /\ last.flagChanged
    /\ theme = "system"
    /\ prefersDark
    /\ ~dark

\* a visibility restore has left a set class alone with a non-empty
\* unrecognised value stored
C31_WitnessRestore ==
    /\ last.op = "VisibilityRestored"
    /\ theme = "system"
    /\ dark

====
